---- MODULE Spec2Model ----
(***************************************************************************)
(* The Coze OAuth token lifecycle of app/services/coze_oauth_service.py    *)
(* and app/routers/coze_auth.py: the token table, the authorization        *)
(* callback, get_valid_token, and the provider's token endpoint they talk  *)
(* to.  Coroutines run on one event loop, so a step of the model is the    *)
(* code between two awaits: the only awaits are the two token-endpoint     *)
(* requests.                                                               *)
(***************************************************************************)
EXTENDS Integers, Sequences, FiniteSets, TLC

(* ------------------------------ constants ------------------------------ *)

\* coze_oauth_service.py:24
TOKEN_REFRESH_BUFFER == 600

\* coze_oauth_service.py:214, the literal 1000000000
TIMESTAMP_THRESHOLD == 1000000000

\* Python's None: what result.get(key) gives for an absent key.
None == -1

\* The empty string, the other falsy token value of `not access_token`.
EmptyStr == 0

\* response.status_code of a successful request (the literal 200).
HTTP_OK == 200

(* -------------------------------- bounds ------------------------------- *)

\* The clock advances at most MaxTicks times, TickStep seconds each.
MaxTicks == 1

\* The provider issues at most MaxIssued token pairs.
MaxIssued == 3

TickStep == TOKEN_REFRESH_BUFFER \div 2

\* time.time() when the model starts: past the threshold, as every clock
\* since 2001 is.
StartTime == TIMESTAMP_THRESHOLD + TickStep

\* The lifetime the provider gives an access token.
Lifetime == TOKEN_REFRESH_BUFFER

Callers == {"c1", "c2"}
Admins == {"admin"}
Procs == Callers \cup Admins

\* The authorization codes a callback request may carry: none, one the
\* provider knows, one it does not.
GoodCode == 1
BadCode == 2
Codes == {None, GoodCode, BadCode}

VARIABLES
    now,            \* time.time(), in seconds
    db,             \* the coze_oauth_tokens table: a set of rows
    next_id,        \* the table's autoincrement id
    pc,             \* where each coroutine is: "idle", "awaiting", "done"
    token_record,   \* the token_record of each get_valid_token (NoRow: None),
                    \* kept until its next invocation
    time_remaining, \* its time_remaining, kept likewise
    sent,           \* requests the current invocation has sent to the provider
    net,            \* the request or response in flight for each coroutine
    outcome,        \* what the last invocation returned or raised
    issued,         \* provider: for each pair issued so far, in order, the
                    \* grant and the refresh token it was issued for
    validRefresh,   \* provider: refresh tokens it would accept
    usedRefresh,    \* provider: refresh tokens it has accepted (now dead)
    callback_args,  \* the code and error of each callback request
    committed,      \* history: the refresh tokens the store has ever held
    expired_token,  \* history: the access_token of the record that a
                    \* get_valid_token found expired when it last raised
                    \* "expired and refresh failed"; None once an exchange
                    \* has been saved
    authorize_states, \* history: the state values build_authorize_url has
                    \* put into an authorize URL (the code keeps none)
    forged_states   \* state values a client has made up

vars == <<now, db, next_id, pc, token_record, time_remaining, sent, net,
          outcome, issued, validRefresh, usedRefresh, callback_args,
          committed, expired_token, authorize_states, forged_states>>

(* ------------------------------ the table ------------------------------ *)

NoRow == [id |-> 0, access_token |-> None, refresh_token |-> None, expires_at |-> 0]

\* The row with the lowest / highest id of a non-empty set of rows.
MinRow(rows) == CHOOSE r \in rows : \A q \in rows : r.id <= q.id
MaxRow(rows) == CHOOSE r \in rows : \A q \in rows : r.id >= q.id

\* db.query(CozeOAuthToken).first()
first_record(rows) == IF rows = {} THEN NoRow ELSE MinRow(rows)

\* db.query(CozeOAuthToken).order_by(CozeOAuthToken.id.desc()).first()
latest_record(rows) == IF rows = {} THEN NoRow ELSE MaxRow(rows)

\* `not x` of Python for a token value
Falsy(x) == x = None \/ x = EmptyStr


(* ------------------------- the token endpoint -------------------------- *)

\* What is in flight for a coroutine: nothing, its request, the provider's
\* response, or the exception httpx raised (timeout, connection error).
\* `arg` is the request's refresh_token or code; the other fields are what
\* response.status_code and result.get(...) give.
NoMsg ==
    [stage |-> "none", grant |-> "none", arg |-> None, status |-> 0,
     error |-> FALSE, access_token |-> None, refresh_token |-> None,
     expires_in |-> None]

Request(grant, arg) == [NoMsg EXCEPT !.stage = "request", !.grant = grant, !.arg = arg]

Response(req, status, error, access_token, refresh_token, expires_in) ==
    [req EXCEPT !.stage = "response", !.status = status, !.error = error,
                !.access_token = access_token, !.refresh_token = refresh_token,
                !.expires_in = expires_in]

\* What the code makes of a response: the dict it returns, or ok = FALSE
\* where it raises.
Raised == [ok |-> FALSE, access_token |-> None, refresh_token |-> None, expires_in |-> 0]
\* exchange_code_for_token without the in-body error check
exchange_code_for_token_NoBodyCheck(resp) ==
    IF resp.stage = "error" THEN Raised
    ELSE IF resp.status # HTTP_OK THEN Raised
    ELSE IF Falsy(resp.access_token) \/ Falsy(resp.refresh_token) THEN Raised
    ELSE [ok |-> TRUE,
          access_token |-> resp.access_token,
          refresh_token |-> resp.refresh_token,
          expires_in |-> IF resp.expires_in = None THEN 0 ELSE resp.expires_in]

\* exchange_code_for_token raising on a response without expires_in
exchange_code_for_token_RequiresExpiresIn(resp) ==
    IF resp.stage = "error" THEN Raised
    ELSE IF resp.status # HTTP_OK THEN Raised
    ELSE IF resp.error THEN Raised
    ELSE IF Falsy(resp.access_token) \/ Falsy(resp.refresh_token)
            \/ resp.expires_in = None THEN Raised
    ELSE [ok |-> TRUE,
          access_token |-> resp.access_token,
          refresh_token |-> resp.refresh_token,
          expires_in |-> resp.expires_in]

\* exchange_code_for_token, from the response on
exchange_code_for_token(resp) ==
    IF resp.stage = "error" THEN Raised               \* client.post raised
    ELSE IF resp.status # HTTP_OK THEN Raised
    ELSE IF resp.error THEN Raised                    \* error or error_code
    ELSE IF Falsy(resp.access_token) \/ Falsy(resp.refresh_token) THEN Raised
    ELSE [ok |-> TRUE,
          access_token |-> resp.access_token,
          refresh_token |-> resp.refresh_token,
          expires_in |-> IF resp.expires_in = None THEN 0 ELSE resp.expires_in]

\* refresh_access_token without the in-body error check
refresh_access_token_NoBodyCheck(resp) ==
    IF resp.stage = "error" THEN Raised
    ELSE IF resp.status # HTTP_OK THEN Raised
    ELSE IF Falsy(resp.access_token) \/ Falsy(resp.refresh_token) THEN Raised
    ELSE [ok |-> TRUE,
          access_token |-> resp.access_token,
          refresh_token |-> resp.refresh_token,
          expires_in |-> IF resp.expires_in = None THEN 0 ELSE resp.expires_in]

\* refresh_access_token, from the response on
refresh_access_token(resp) ==
    IF resp.stage = "error" THEN Raised               \* client.post raised
    ELSE IF resp.status # HTTP_OK THEN Raised
    ELSE IF resp.error THEN Raised                    \* error or error_code
    ELSE IF Falsy(resp.access_token) \/ Falsy(resp.refresh_token) THEN Raised
    ELSE [ok |-> TRUE,
          access_token |-> resp.access_token,
          refresh_token |-> resp.refresh_token,
          expires_in |-> IF resp.expires_in = None THEN 0 ELSE resp.expires_in]

(* ------------------------------ the store ------------------------------ *)

\* expires_at_of taking the threshold itself for a timestamp
expires_at_of_Inclusive(expires_in, t) ==
    IF expires_in >= TIMESTAMP_THRESHOLD THEN expires_in ELSE t + expires_in
\* expires_at_of storing a number of seconds without adding the clock
expires_at_of_IgnoresClock(expires_in, t) == expires_in

\* save_token_to_db's expires_at
expires_at_of(expires_in, t) ==
    IF expires_in > TIMESTAMP_THRESHOLD THEN expires_in ELSE t + expires_in

\* save_token_to_db leaving the refresh_token of an existing row as it was
save_token_to_db_KeepsRefresh(rows, id, access_token, refresh_token, expires_in, t) ==
    LET existing == IF rows = {} THEN NoRow ELSE MinRow(rows)
        expires_at == IF expires_in > TIMESTAMP_THRESHOLD THEN expires_in ELSE t + expires_in
    IN  IF existing # NoRow
        THEN (rows \ {existing}) \cup
             {[existing EXCEPT !.access_token = access_token,
                               !.expires_at = expires_at]}
        ELSE rows \cup
             {[id |-> id, access_token |-> access_token,
               refresh_token |-> refresh_token, expires_at |-> expires_at]}

\* save_token_to_db adding a row whether or not one exists
save_token_to_db_AlwaysInserts(rows, id, access_token, refresh_token, expires_in, t) ==
    rows \cup
        {[id |-> Cardinality(rows) + 1, access_token |-> access_token,
          refresh_token |-> refresh_token,
          expires_at |-> IF expires_in > TIMESTAMP_THRESHOLD THEN expires_in
                         ELSE t + expires_in]}
\* save_token_to_db leaving the expires_at of an existing row as it was
save_token_to_db_KeepsExpiry(rows, id, access_token, refresh_token, expires_in, t) ==
    LET existing == IF rows = {} THEN NoRow ELSE MinRow(rows)
        expires_at == IF expires_in > TIMESTAMP_THRESHOLD THEN expires_in ELSE t + expires_in
    IN  IF existing # NoRow
        THEN (rows \ {existing}) \cup
             {[existing EXCEPT !.access_token = access_token,
                               !.refresh_token = refresh_token]}
        ELSE rows \cup
             {[id |-> id, access_token |-> access_token,
               refresh_token |-> refresh_token, expires_at |-> expires_at]}

\* save_token_to_db: the table after the commit
save_token_to_db(rows, id, access_token, refresh_token, expires_in, t) ==
    LET existing == first_record(rows)
        expires_at == expires_at_of(expires_in, t)
    IN  IF existing # NoRow
        THEN (rows \ {existing}) \cup
             {[existing EXCEPT !.access_token = access_token,
                               !.refresh_token = refresh_token,
                               !.expires_at = expires_at]}
        ELSE rows \cup
             {[id |-> id, access_token |-> access_token,
               refresh_token |-> refresh_token, expires_at |-> expires_at]}

\* The autoincrement id after save_token_to_db
id_after_save(rows, id) == IF first_record(rows) # NoRow THEN id ELSE id + 1

(* --------------------------- get_valid_token --------------------------- *)

\* IsFresh with the comparison turned round
IsFresh_Flipped(tr) == tr < TOKEN_REFRESH_BUFFER

\* `if time_remaining > TOKEN_REFRESH_BUFFER`
IsFresh(tr) == tr > TOKEN_REFRESH_BUFFER

\* StillUsable taking a token that expires this very second for usable
StillUsable_Inclusive(tr) == tr >= 0

\* `if time_remaining > 0` of the except branch
StillUsable(tr) == tr > 0

\* What an invocation returned or raised, and how its token-endpoint request
\* went ("not_tried", "succeeded", "failed").
Returned(token, request) == [kind |-> "token", token |-> token, request |-> request]
RaisedError(kind, request) == [kind |-> kind, token |-> None, request |-> request]
NoOutcome == [kind |-> "none", token |-> None, request |-> "not_tried"]

CanStart(p) == pc[p] \in {"idle", "done"}

\* GVT_NotAuthorized returning None where it should raise
GVT_NotAuthorized_ReturnsNone(c) ==
    /\ pc[c] \in {"idle", "done"}
    /\ db = {}
    /\ pc' = [pc EXCEPT ![c] = "done"]
    /\ token_record' = [token_record EXCEPT ![c] = NoRow]
    /\ time_remaining' = [time_remaining EXCEPT ![c] = 0]
    /\ sent' = [sent EXCEPT ![c] = 0]
    /\ net' = [net EXCEPT ![c] = NoMsg]
    /\ outcome' = [outcome EXCEPT ![c] =
            [kind |-> "token", token |-> None, request |-> "not_tried"]]
    /\ UNCHANGED <<authorize_states, forged_states, now, db, next_id, issued, validRefresh, usedRefresh, callback_args, committed,
                   expired_token>>

\* No record: raise before anything else.
GVT_NotAuthorized(c) ==
    /\ CanStart(c)
    /\ latest_record(db) = NoRow
    /\ pc' = [pc EXCEPT ![c] = "done"]
    /\ token_record' = [token_record EXCEPT ![c] = NoRow]
    /\ time_remaining' = [time_remaining EXCEPT ![c] = 0]
    /\ sent' = [sent EXCEPT ![c] = 0]
    /\ net' = [net EXCEPT ![c] = NoMsg]
    /\ outcome' = [outcome EXCEPT ![c] = RaisedError("NotAuthorized", "not_tried")]
    /\ UNCHANGED <<authorize_states, forged_states, now, db, next_id, issued, validRefresh, usedRefresh, callback_args, committed,
                   expired_token>>

\* GVT_Fast writing a new expires_at into the record it serves
GVT_Fast_RestampsExpiry(c) ==
    LET rec == latest_record(db)
        tr == rec.expires_at - now
    IN  /\ pc[c] \in {"idle", "done"}
        /\ rec # NoRow
        /\ IsFresh(tr)
        /\ db' = (db \ {rec}) \cup
                 {[rec EXCEPT !.expires_at = now + TIMESTAMP_THRESHOLD + 1]}
        /\ pc' = [pc EXCEPT ![c] = "done"]
        /\ token_record' = [token_record EXCEPT ![c] = rec]
        /\ time_remaining' = [time_remaining EXCEPT ![c] = tr]
        /\ sent' = [sent EXCEPT ![c] = 0]
        /\ net' = [net EXCEPT ![c] = NoMsg]
        /\ outcome' = [outcome EXCEPT ![c] = Returned(rec.access_token, "not_tried")]
        /\ UNCHANGED <<authorize_states, forged_states, now, next_id, issued,
                       validRefresh, usedRefresh, callback_args, committed,
                       expired_token>>

\* The record is fresh: return its access_token.
GVT_Fast(c) ==
    LET rec == latest_record(db)
        tr == rec.expires_at - now
    IN  /\ CanStart(c)
        /\ rec # NoRow
        /\ IsFresh(tr)
        /\ pc' = [pc EXCEPT ![c] = "done"]
        /\ token_record' = [token_record EXCEPT ![c] = rec]
        /\ time_remaining' = [time_remaining EXCEPT ![c] = tr]
        /\ sent' = [sent EXCEPT ![c] = 0]
        /\ net' = [net EXCEPT ![c] = NoMsg]
        /\ outcome' = [outcome EXCEPT ![c] = Returned(rec.access_token, "not_tried")]
        /\ UNCHANGED <<authorize_states, forged_states, now, db, next_id, issued, validRefresh, usedRefresh, callback_args, committed,
                   expired_token>>

\* GVT_SendRefresh refreshing with the record of the caller's previous call
GVT_SendRefresh_Cached(c) ==
    LET rec == IF token_record[c] # NoRow THEN token_record[c] ELSE latest_record(db)
        tr == rec.expires_at - now
    IN  /\ CanStart(c)
        /\ rec # NoRow
        /\ ~IsFresh(tr)
        /\ pc' = [pc EXCEPT ![c] = "awaiting"]
        /\ token_record' = [token_record EXCEPT ![c] = rec]
        /\ time_remaining' = [time_remaining EXCEPT ![c] = tr]
        /\ sent' = [sent EXCEPT ![c] = 1]
        /\ net' = [net EXCEPT ![c] = Request("refresh_token", rec.refresh_token)]
        /\ outcome' = [outcome EXCEPT ![c] = NoOutcome]
        /\ UNCHANGED <<authorize_states, forged_states, now, db, next_id, issued, validRefresh, usedRefresh,
                       callback_args, committed,
                   expired_token>>
\* GVT_SendRefresh giving up, without a request, on a record that is known
\* to have expired with its refresh failed
GVT_SendRefresh_Latched(c) ==
    LET rec == latest_record(db)
        tr == rec.expires_at - now
        latched == rec.access_token = expired_token
    IN  /\ CanStart(c)
        /\ rec # NoRow
        /\ ~IsFresh(tr)
        /\ pc' = [pc EXCEPT ![c] = IF latched THEN "done" ELSE "awaiting"]
        /\ token_record' = [token_record EXCEPT ![c] = rec]
        /\ time_remaining' = [time_remaining EXCEPT ![c] = tr]
        /\ sent' = [sent EXCEPT ![c] = IF latched THEN 0 ELSE 1]
        /\ net' = [net EXCEPT ![c] =
                IF latched THEN NoMsg ELSE Request("refresh_token", rec.refresh_token)]
        /\ outcome' = [outcome EXCEPT ![c] =
                IF latched THEN RaisedError("TokenExpiredAndRefreshFailed", "not_tried")
                ELSE NoOutcome]
        /\ UNCHANGED <<authorize_states, forged_states, now, db, next_id, issued, validRefresh, usedRefresh,
                       callback_args, committed, expired_token>>

\* GVT_SendRefresh raising at once, without a request, on a record that has
\* already expired
GVT_SendRefresh_GivesUpWhenExpired(c) ==
    LET rec == latest_record(db)
        tr == rec.expires_at - now
    IN  /\ pc[c] \in {"idle", "done"}
        /\ rec # NoRow
        /\ ~IsFresh(tr)
        /\ pc' = [pc EXCEPT ![c] = IF tr <= 0 THEN "done" ELSE "awaiting"]
        /\ token_record' = [token_record EXCEPT ![c] = rec]
        /\ time_remaining' = [time_remaining EXCEPT ![c] = tr]
        /\ sent' = [sent EXCEPT ![c] = IF tr <= 0 THEN 0 ELSE 1]
        /\ net' = [net EXCEPT ![c] =
                IF tr <= 0 THEN NoMsg ELSE Request("refresh_token", rec.refresh_token)]
        /\ outcome' = [outcome EXCEPT ![c] =
                IF tr <= 0 THEN RaisedError("TokenExpiredAndRefreshFailed", "not_tried")
                ELSE NoOutcome]
        /\ UNCHANGED <<authorize_states, forged_states, now, db, next_id, issued,
                       validRefresh, usedRefresh, callback_args, committed,
                       expired_token>>

\* Near or past expiry: send the refresh request and await the response.
GVT_SendRefresh(c) ==
    LET rec == latest_record(db)
        tr == rec.expires_at - now
    IN  /\ CanStart(c)
        /\ rec # NoRow
        /\ ~IsFresh(tr)
        /\ pc' = [pc EXCEPT ![c] = "awaiting"]
        /\ token_record' = [token_record EXCEPT ![c] = rec]
        /\ time_remaining' = [time_remaining EXCEPT ![c] = tr]
        /\ sent' = [sent EXCEPT ![c] = 1]
        /\ net' = [net EXCEPT ![c] = Request("refresh_token", rec.refresh_token)]
        /\ outcome' = [outcome EXCEPT ![c] = NoOutcome]
        /\ UNCHANGED <<authorize_states, forged_states, now, db, next_id, issued, validRefresh, usedRefresh, callback_args, committed,
                   expired_token>>

Answered(p) == pc[p] = "awaiting" /\ net[p].stage \in {"response", "error"}

\* GVT_RefreshFailed raising whenever the refresh failed
GVT_RefreshFailed_AlwaysRaises(c) ==
    /\ pc[c] = "awaiting"
    /\ net[c].stage \in {"response", "error"}
    /\ ~refresh_access_token(net[c]).ok
    /\ pc' = [pc EXCEPT ![c] = "done"]
    /\ outcome' = [outcome EXCEPT ![c] =
            [kind |-> "TokenExpiredAndRefreshFailed", token |-> None, request |-> "failed"]]
    /\ net' = [net EXCEPT ![c] = NoMsg]
    /\ UNCHANGED <<authorize_states, forged_states, now, db, next_id, token_record, time_remaining, sent,
                   issued, validRefresh, usedRefresh, callback_args, committed>>
    /\ expired_token' = token_record[c].access_token
\* GVT_RefreshFailed writing whatever tokens the failed response carried
GVT_RefreshFailed_SavesResponse(c) ==
    /\ pc[c] = "awaiting"
    /\ net[c].stage \in {"response", "error"}
    /\ ~refresh_access_token(net[c]).ok
    /\ db' = IF Falsy(net[c].refresh_token) THEN db
             ELSE save_token_to_db(db, next_id, net[c].access_token,
                                   net[c].refresh_token, 0, now)
    /\ pc' = [pc EXCEPT ![c] = "done"]
    /\ outcome' = [outcome EXCEPT ![c] =
            IF StillUsable(time_remaining[c])
            THEN Returned(token_record[c].access_token, "failed")
            ELSE RaisedError("TokenExpiredAndRefreshFailed", "failed")]
    /\ net' = [net EXCEPT ![c] = NoMsg]
    /\ UNCHANGED <<authorize_states, forged_states, now, next_id, token_record, time_remaining, sent,
                   issued, validRefresh, usedRefresh, callback_args, committed>>
    /\ expired_token' = IF StillUsable(time_remaining[c]) THEN expired_token
                        ELSE token_record[c].access_token

\* GVT_RefreshFailed letting the error of refresh_access_token through as it
\* is when the token has expired
GVT_RefreshFailed_RaisesRaw(c) ==
    /\ pc[c] = "awaiting"
    /\ net[c].stage \in {"response", "error"}
    /\ ~refresh_access_token(net[c]).ok
    /\ pc' = [pc EXCEPT ![c] = "done"]
    /\ outcome' = [outcome EXCEPT ![c] =
            IF StillUsable(time_remaining[c])
            THEN Returned(token_record[c].access_token, "failed")
            ELSE RaisedError(IF net[c].stage = "error" THEN "ProviderTransportError"
                             ELSE "ProviderProtocolError", "failed")]
    /\ net' = [net EXCEPT ![c] = NoMsg]
    /\ UNCHANGED <<authorize_states, forged_states, now, db, next_id, token_record,
                   time_remaining, sent, issued, validRefresh, usedRefresh,
                   callback_args, committed>>
    /\ expired_token' = IF StillUsable(time_remaining[c]) THEN expired_token
                        ELSE token_record[c].access_token

\* GVT_RefreshFailed sending the refresh request again for as long as it
\* fails
GVT_RefreshFailed_Retries(c) ==
    /\ pc[c] = "awaiting"
    /\ net[c].stage \in {"response", "error"}
    /\ ~refresh_access_token(net[c]).ok
    /\ net' = [net EXCEPT ![c] = Request("refresh_token", token_record[c].refresh_token)]
    /\ UNCHANGED <<authorize_states, forged_states, now, db, next_id, pc, token_record,
                   time_remaining, sent, outcome, issued, validRefresh, usedRefresh,
                   callback_args, committed, expired_token>>

\* refresh_access_token raised: serve the old token if it has not expired,
\* raise otherwise.
GVT_RefreshFailed(c) ==
    /\ Answered(c)
    /\ ~refresh_access_token(net[c]).ok
    /\ pc' = [pc EXCEPT ![c] = "done"]
    /\ outcome' = [outcome EXCEPT ![c] =
            IF StillUsable(time_remaining[c])
            THEN Returned(token_record[c].access_token, "failed")
            ELSE RaisedError("TokenExpiredAndRefreshFailed", "failed")]
    /\ net' = [net EXCEPT ![c] = NoMsg]
    /\ UNCHANGED <<authorize_states, forged_states, now, db, next_id, token_record, time_remaining, sent,
                   issued, validRefresh, usedRefresh, callback_args, committed>>
    /\ expired_token' = IF StillUsable(time_remaining[c]) THEN expired_token
                        ELSE token_record[c].access_token

\* refresh_access_token returned: save the new pair and return its
\* access_token.
GVT_Commit(c) ==
    LET new_tokens == refresh_access_token(net[c])
    IN  /\ Answered(c)
        /\ new_tokens.ok
        /\ db' = save_token_to_db(db, next_id, new_tokens.access_token,
                                  new_tokens.refresh_token, new_tokens.expires_in, now)
        /\ next_id' = id_after_save(db, next_id)
        /\ committed' = committed \cup {r.refresh_token : r \in db'}
        /\ pc' = [pc EXCEPT ![c] = "done"]
        /\ outcome' = [outcome EXCEPT ![c] = Returned(new_tokens.access_token, "succeeded")]
        /\ net' = [net EXCEPT ![c] = NoMsg]
        /\ UNCHANGED <<authorize_states, forged_states, now, token_record, time_remaining, sent,
                       issued, validRefresh, usedRefresh, callback_args>>
        /\ expired_token' = expired_token

\* GVT_SaveFailed serving the old token, where it has not expired, in place
\* of the error of the write
GVT_SaveFailed_Degrades(c) ==
    /\ pc[c] = "awaiting"
    /\ net[c].stage \in {"response", "error"}
    /\ refresh_access_token(net[c]).ok
    /\ pc' = [pc EXCEPT ![c] = "done"]
    /\ outcome' = [outcome EXCEPT ![c] =
            IF StillUsable(time_remaining[c])
            THEN Returned(token_record[c].access_token, "succeeded")
            ELSE RaisedError("StoreError", "succeeded")]
    /\ net' = [net EXCEPT ![c] = NoMsg]
    /\ UNCHANGED <<authorize_states, forged_states, now, db, next_id, token_record,
                   time_remaining, sent, issued, validRefresh, usedRefresh,
                   callback_args, committed, expired_token>>

\* refresh_access_token returned and save_token_to_db raised (the query or
\* the commit failed): the session is rolled back, the exception leaves
\* get_valid_token as it is.
GVT_SaveFailed(c) ==
    /\ Answered(c)
    /\ refresh_access_token(net[c]).ok
    /\ pc' = [pc EXCEPT ![c] = "done"]
    /\ outcome' = [outcome EXCEPT ![c] = RaisedError("StoreError", "succeeded")]
    /\ net' = [net EXCEPT ![c] = NoMsg]
    /\ UNCHANGED <<authorize_states, forged_states, now, db, next_id, token_record,
                   time_remaining, sent, issued, validRefresh, usedRefresh,
                   callback_args, committed, expired_token>>

(* -------------------------- coze_auth_callback ------------------------- *)

\* build_authorize_url is called at most MaxLogins times; its states are
\* 1..MaxLogins, and ForgedState is one it never generates.
MaxLogins == 1

ForgedState == MaxLogins + 1

\* The state a callback request may carry: none, one of an authorize URL,
\* one a client made up.  The handler has no parameter for it.
CarriedStates == {None} \cup authorize_states \cup forged_states

\* coze_auth_login: build_authorize_url generates a state, puts it into the
\* URL, and keeps no copy; the browser is redirected.
Login ==
    /\ Cardinality(authorize_states) < MaxLogins
    /\ authorize_states' = authorize_states \cup {Cardinality(authorize_states) + 1}
    /\ UNCHANGED <<now, db, next_id, pc, token_record, time_remaining, sent, net,
                   outcome, issued, validRefresh, usedRefresh, callback_args,
                   committed, expired_token, forged_states>>

\* A client makes up a state value for a callback request of its own.
ForgeState ==
    /\ forged_states = {}
    /\ forged_states' = {ForgedState}
    /\ UNCHANGED <<now, db, next_id, pc, token_record, time_remaining, sent, net,
                   outcome, issued, validRefresh, usedRefresh, callback_args,
                   committed, expired_token, authorize_states>>

\* `if error:` or `if not code:`: a 400 page, nothing else.
CB_Refused(a) ==
    \E code \in Codes, error \in BOOLEAN, state \in CarriedStates :
        /\ CanStart(a)
        /\ error \/ Falsy(code)
        /\ callback_args' = [callback_args EXCEPT ![a] =
                [code |-> code, error |-> error, state |-> state]]
        /\ pc' = [pc EXCEPT ![a] = "done"]
        /\ sent' = [sent EXCEPT ![a] = 0]
        /\ net' = [net EXCEPT ![a] = NoMsg]
        /\ outcome' = [outcome EXCEPT ![a] = RaisedError("400", "not_tried")]
        /\ UNCHANGED <<authorize_states, forged_states, now, db, next_id, token_record, time_remaining,
                       issued, validRefresh, usedRefresh, committed,
                   expired_token>>

\* CB_SendExchange exchanging a code whether or not the request also carries
\* an error
CB_SendExchange_CodeWins(a) ==
    \E code \in Codes, error \in BOOLEAN, state \in CarriedStates :
        /\ pc[a] \in {"idle", "done"}
        /\ ~Falsy(code)
        /\ callback_args' = [callback_args EXCEPT ![a] =
                [code |-> code, error |-> error, state |-> state]]
        /\ pc' = [pc EXCEPT ![a] = "awaiting"]
        /\ sent' = [sent EXCEPT ![a] = 1]
        /\ net' = [net EXCEPT ![a] = Request("authorization_code", code)]
        /\ outcome' = [outcome EXCEPT ![a] = NoOutcome]
        /\ UNCHANGED <<authorize_states, forged_states, now, db, next_id,
                       token_record, time_remaining, issued, validRefresh,
                       usedRefresh, committed, expired_token>>

\* CB_SendExchange refusing a request whose state no authorize URL carried
CB_SendExchange_ChecksState(a) ==
    \E code \in Codes, error \in BOOLEAN, state \in CarriedStates :
        LET known == state \in authorize_states
        IN  /\ pc[a] \in {"idle", "done"}
            /\ ~error
            /\ ~Falsy(code)
            /\ callback_args' = [callback_args EXCEPT ![a] =
                    [code |-> code, error |-> error, state |-> state]]
            /\ pc' = [pc EXCEPT ![a] = IF known THEN "awaiting" ELSE "done"]
            /\ sent' = [sent EXCEPT ![a] = IF known THEN 1 ELSE 0]
            /\ net' = [net EXCEPT ![a] =
                    IF known THEN Request("authorization_code", code) ELSE NoMsg]
            /\ outcome' = [outcome EXCEPT ![a] =
                    IF known THEN NoOutcome ELSE RaisedError("400", "not_tried")]
            /\ UNCHANGED <<authorize_states, forged_states, now, db, next_id,
                           token_record, time_remaining, issued, validRefresh,
                           usedRefresh, committed, expired_token>>

\* A code and no error: send the exchange request and await the response.
CB_SendExchange(a) ==
    \E code \in Codes, error \in BOOLEAN, state \in CarriedStates :
        /\ CanStart(a)
        /\ ~error
        /\ ~Falsy(code)
        /\ callback_args' = [callback_args EXCEPT ![a] =
                [code |-> code, error |-> error, state |-> state]]
        /\ pc' = [pc EXCEPT ![a] = "awaiting"]
        /\ sent' = [sent EXCEPT ![a] = 1]
        /\ net' = [net EXCEPT ![a] = Request("authorization_code", code)]
        /\ outcome' = [outcome EXCEPT ![a] = NoOutcome]
        /\ UNCHANGED <<authorize_states, forged_states, now, db, next_id, token_record, time_remaining,
                       issued, validRefresh, usedRefresh, committed,
                   expired_token>>
\* CB_ExchangeFailed dropping the stored record on a failed exchange
CB_ExchangeFailed_ClearsStore(a) ==
    /\ pc[a] = "awaiting"
    /\ net[a].stage \in {"response", "error"}
    /\ ~exchange_code_for_token(net[a]).ok
    /\ db' = {}
    /\ pc' = [pc EXCEPT ![a] = "done"]
    /\ outcome' = [outcome EXCEPT ![a] = RaisedError("500", "failed")]
    /\ net' = [net EXCEPT ![a] = NoMsg]
    /\ UNCHANGED <<authorize_states, forged_states, now, next_id, token_record, time_remaining, sent,
                   issued, validRefresh, usedRefresh, callback_args, committed,
                   expired_token>>

\* CB_ExchangeFailed sending the exchange request once more after a first
\* failure
CB_ExchangeFailed_Retries(a) ==
    /\ pc[a] = "awaiting"
    /\ net[a].stage \in {"response", "error"}
    /\ ~exchange_code_for_token(net[a]).ok
    /\ pc' = [pc EXCEPT ![a] = IF sent[a] = 1 THEN "awaiting" ELSE "done"]
    /\ sent' = [sent EXCEPT ![a] = IF sent[a] = 1 THEN 2 ELSE @]
    /\ outcome' = [outcome EXCEPT ![a] =
            IF sent[a] = 1 THEN @ ELSE RaisedError("500", "failed")]
    /\ net' = [net EXCEPT ![a] =
            IF sent[a] = 1 THEN Request("authorization_code", callback_args[a].code)
            ELSE NoMsg]
    /\ UNCHANGED <<authorize_states, forged_states, now, db, next_id, token_record,
                   time_remaining, issued, validRefresh, usedRefresh,
                   callback_args, committed, expired_token>>

\* exchange_code_for_token raised: the 500 page.
CB_ExchangeFailed(a) ==
    /\ Answered(a)
    /\ ~exchange_code_for_token(net[a]).ok
    /\ pc' = [pc EXCEPT ![a] = "done"]
    /\ outcome' = [outcome EXCEPT ![a] = RaisedError("500", "failed")]
    /\ net' = [net EXCEPT ![a] = NoMsg]
    /\ UNCHANGED <<authorize_states, forged_states, now, db, next_id, token_record, time_remaining, sent,
                   issued, validRefresh, usedRefresh, callback_args, committed,
                   expired_token>>

\* CB_Commit adding a row for every exchange, beside the rows already there
CB_Commit_Inserts(a) ==
    LET token_data == exchange_code_for_token(net[a])
    IN  /\ pc[a] = "awaiting"
        /\ net[a].stage \in {"response", "error"}
        /\ token_data.ok
        /\ db' = db \cup
                {[id |-> next_id, access_token |-> token_data.access_token,
                  refresh_token |-> token_data.refresh_token,
                  expires_at |-> expires_at_of(token_data.expires_in, now)]}
        /\ next_id' = next_id + 1
        /\ committed' = committed \cup {r.refresh_token : r \in db'}
        /\ pc' = [pc EXCEPT ![a] = "done"]
        /\ outcome' = [outcome EXCEPT ![a] = Returned(token_data.access_token, "succeeded")]
        /\ net' = [net EXCEPT ![a] = NoMsg]
        /\ UNCHANGED <<authorize_states, forged_states, now, token_record,
                       time_remaining, sent, issued, validRefresh, usedRefresh,
                       callback_args>>
        /\ expired_token' = None

\* exchange_code_for_token returned: save the pair, the success page.
CB_Commit(a) ==
    LET token_data == exchange_code_for_token(net[a])
    IN  /\ Answered(a)
        /\ token_data.ok
        /\ db' = save_token_to_db(db, next_id, token_data.access_token,
                                  token_data.refresh_token, token_data.expires_in, now)
        /\ next_id' = id_after_save(db, next_id)
        /\ committed' = committed \cup {r.refresh_token : r \in db'}
        /\ pc' = [pc EXCEPT ![a] = "done"]
        /\ outcome' = [outcome EXCEPT ![a] = Returned(token_data.access_token, "succeeded")]
        /\ net' = [net EXCEPT ![a] = NoMsg]
        /\ UNCHANGED <<authorize_states, forged_states, now, token_record, time_remaining, sent,
                       issued, validRefresh, usedRefresh, callback_args>>
        /\ expired_token' = None

\* exchange_code_for_token returned and save_token_to_db raised: rolled
\* back, and the callback's except branch answers with the 500 page.
CB_SaveFailed(a) ==
    /\ Answered(a)
    /\ exchange_code_for_token(net[a]).ok
    /\ pc' = [pc EXCEPT ![a] = "done"]
    /\ outcome' = [outcome EXCEPT ![a] = RaisedError("500", "succeeded")]
    /\ net' = [net EXCEPT ![a] = NoMsg]
    /\ UNCHANGED <<authorize_states, forged_states, now, db, next_id, token_record,
                   time_remaining, sent, issued, validRefresh, usedRefresh,
                   callback_args, committed, expired_token>>

(* ----------------------------- the provider ---------------------------- *)

\* The expires_in a response may carry at time t: a lifetime in seconds, the
\* same as a Unix timestamp, and the threshold itself.
ExpiresInValues(t) ==
    {Lifetime, t + Lifetime, TIMESTAMP_THRESHOLD}

\* The responses of a provider that has issued pair n.
IssuedResponses(req, n, t) ==
    {Response(req, HTTP_OK, FALSE, n, n, e) : e \in ExpiresInValues(t)}

\* The same, sent badly: no expires_in, an error field beside the tokens, an
\* empty access_token, a status other than 200.
GarbledResponses(req, n) ==
    {Response(req, HTTP_OK, FALSE, n, n, None),
     Response(req, HTTP_OK, TRUE, n, n, Lifetime),
     Response(req, HTTP_OK, FALSE, EmptyStr, n, Lifetime),
     Response(req, 500, FALSE, n, n, Lifetime)}

\* The responses of a provider that issues nothing: a non-200 status, an
\* in-body error, a body without the tokens.
ErrorResponses(req) ==
    {Response(req, 500, FALSE, None, None, None),
     Response(req, HTTP_OK, TRUE, None, None, None),
     Response(req, HTTP_OK, FALSE, None, None, None)}
\* Grantable without rotation: a refresh token stays good after its use
Grantable_NoRotation(req) ==
    IF req.grant = "refresh_token" THEN req.arg \in validRefresh \cup usedRefresh
    ELSE req.arg = GoodCode

\* The provider would grant the request: the code is good, or the refresh
\* token is the live one ("Token Rotation: the old one dies at once").
Grantable(req) ==
    IF req.grant = "refresh_token" THEN req.arg \in validRefresh
    ELSE req.arg = GoodCode

\* The provider records pair n as issued for req and, for a refresh grant,
\* kills the refresh token it was given.
Rotation(req, n) ==
    /\ issued' = Append(issued,
           [grant |-> req.grant,
            from |-> IF req.grant = "refresh_token" THEN req.arg ELSE None])
    /\ validRefresh' =
           (IF req.grant = "refresh_token" THEN validRefresh \ {req.arg}
            ELSE validRefresh) \cup {n}
    /\ usedRefresh' =
           IF req.grant = "refresh_token" THEN usedRefresh \cup {req.arg}
           ELSE usedRefresh

\* The provider issues pair n = Len(issued) + 1 and answers with it.
ProviderIssues(p) ==
    LET req == net[p]
        n == Len(issued) + 1
    IN  /\ req.stage = "request"
        /\ Grantable(req)
        /\ Len(issued) < MaxIssued
        /\ \E resp \in IssuedResponses(req, n, now) : net' = [net EXCEPT ![p] = resp]
        /\ Rotation(req, n)
        /\ UNCHANGED <<authorize_states, forged_states, now, db, next_id, pc, token_record, time_remaining, sent,
                       outcome, callback_args, committed,
                   expired_token>>

\* The provider issues pair n and answers with a body that lacks expires_in,
\* carries an error beside the pair, or has an empty access_token.
ProviderIssuesGarbled(p) ==
    LET req == net[p]
        n == Len(issued) + 1
    IN  /\ req.stage = "request"
        /\ Grantable(req)
        /\ Len(issued) < MaxIssued
        /\ \E resp \in GarbledResponses(req, n) : net' = [net EXCEPT ![p] = resp]
        /\ Rotation(req, n)
        /\ UNCHANGED <<authorize_states, forged_states, now, db, next_id, pc, token_record, time_remaining, sent,
                       outcome, callback_args, committed,
                   expired_token>>

\* The provider refuses a request it cannot grant.
ProviderRefuses(p) ==
    /\ net[p].stage = "request"
    /\ ~Grantable(net[p])
    /\ \E resp \in ErrorResponses(net[p]) : net' = [net EXCEPT ![p] = resp]
    /\ UNCHANGED <<authorize_states, forged_states, now, db, next_id, pc, token_record, time_remaining, sent,
                   outcome, issued, validRefresh, usedRefresh, callback_args,
          committed,
                   expired_token>>

\* The provider fails on a request it could have granted.
ProviderFails(p) ==
    /\ net[p].stage = "request"
    /\ Grantable(net[p])
    /\ \E resp \in ErrorResponses(net[p]) : net' = [net EXCEPT ![p] = resp]
    /\ UNCHANGED <<authorize_states, forged_states, now, db, next_id, pc, token_record, time_remaining, sent,
                   outcome, issued, validRefresh, usedRefresh, callback_args,
          committed,
                   expired_token>>

\* The request or the response is lost, or the 30 s timeout ends the wait:
\* client.post raises.
TransportError(p) ==
    /\ net[p].stage \in {"request", "response"}
    /\ net' = [net EXCEPT ![p] = [Request(@.grant, @.arg) EXCEPT !.stage = "error"]]
    /\ UNCHANGED <<authorize_states, forged_states, now, db, next_id, pc, token_record, time_remaining, sent,
                   outcome, issued, validRefresh, usedRefresh, callback_args,
          committed,
                   expired_token>>
\* Tick with a background loop that refreshes a record about to expire
Tick_WithBackgroundRefresh ==
    /\ now < StartTime + MaxTicks * TickStep
    /\ now' = now + TickStep
    /\ net' = [p \in Procs |->
                IF /\ p \in Callers
                   /\ pc[p] # "awaiting"
                   /\ db # {}
                   /\ ~IsFresh(latest_record(db).expires_at - now')
                THEN Request("refresh_token", latest_record(db).refresh_token)
                ELSE net[p]]
    /\ UNCHANGED <<authorize_states, forged_states, db, next_id, pc, token_record, time_remaining, sent,
                   outcome, issued, validRefresh, usedRefresh, callback_args,
                   committed, expired_token>>

\* Time passes.
Tick ==
    /\ now < StartTime + MaxTicks * TickStep
    /\ now' = now + TickStep
    /\ UNCHANGED <<authorize_states, forged_states, db, next_id, pc, token_record, time_remaining, sent, net,
                   outcome, issued, validRefresh, usedRefresh, callback_args,
          committed,
                   expired_token>>

\* A whole token lifetime passes, as it can while a coroutine is kept
\* waiting or between two invocations.
Elapse ==
    /\ now + Lifetime <= StartTime + MaxTicks * (TickStep + Lifetime)
    /\ now' = now + Lifetime
    /\ UNCHANGED <<authorize_states, forged_states, db, next_id, pc, token_record, time_remaining, sent, net,
                   outcome, issued, validRefresh, usedRefresh, callback_args,
                   committed,
                   expired_token>>

(* --------------------------- the specification ------------------------- *)

Init ==
    /\ now = StartTime
    /\ db = {}
    /\ next_id = 1
    /\ pc = [p \in Procs |-> "idle"]
    /\ token_record = [c \in Callers |-> NoRow]
    /\ time_remaining = [c \in Callers |-> 0]
    /\ sent = [p \in Procs |-> 0]
    /\ net = [p \in Procs |-> NoMsg]
    /\ outcome = [p \in Procs |-> NoOutcome]
    /\ issued = <<>>
    /\ validRefresh = {}
    /\ usedRefresh = {}
    /\ callback_args = [a \in Admins |-> [code |-> None, error |-> FALSE, state |-> None]]
    /\ committed = {}
    /\ expired_token = None
    /\ authorize_states = {}
    /\ forged_states = {}

\* The code: get_valid_token invocations of `callers` and the callback.
Code(callers) ==
    \/ \E c \in callers : GVT_NotAuthorized(c)
    \/ \E c \in callers : GVT_Fast(c)
    \/ \E c \in callers : GVT_SendRefresh(c)
    \/ \E c \in callers : GVT_RefreshFailed(c)
    \/ \E c \in callers : GVT_Commit(c)
    \/ \E a \in Admins : CB_Refused(a)
    \/ \E a \in Admins : CB_SendExchange(a)
    \/ \E a \in Admins : CB_ExchangeFailed(a)
    \/ \E a \in Admins : CB_Commit(a)

\* A token endpoint that answers every request, well formed.
Endpoint ==
    \/ \E p \in Procs : ProviderIssues(p)
    \/ \E p \in Procs : ProviderRefuses(p)

\* Every failure the token endpoint can show.
Faults ==
    \/ \E p \in Procs : ProviderIssuesGarbled(p)
    \/ \E p \in Procs : ProviderFails(p)
    \/ \E p \in Procs : TransportError(p)

\* One get_valid_token invocation at a time, beside the callback, against
\* an endpoint that may fail in every way.
Next == Code({"c1"}) \/ Endpoint \/ Faults \/ Tick

Spec == Init /\ [][Next]_vars

\* Concurrent get_valid_token invocations, beside the callback, against an
\* endpoint that answers every request.
NextConcurrent == Code(Callers) \/ Endpoint \/ Tick

SpecConcurrent == Init /\ [][NextConcurrent]_vars

\* One get_valid_token invocation at a time, beside the callback, against an
\* endpoint that answers well or not at all, with a clock that can run past
\* a token's expiry.
NextExpiry ==
    \/ Code({"c1"})
    \/ Endpoint
    \/ \E p \in Procs : TransportError(p)
    \/ Tick
    \/ Elapse

SpecExpiry == Init /\ [][NextExpiry]_vars

\* The token endpoint answers p's request, or the request times out.
Answer(p) ==
    \/ ProviderIssues(p)
    \/ ProviderIssuesGarbled(p)
    \/ ProviderRefuses(p)
    \/ ProviderFails(p)
    \/ TransportError(p)

\* The coroutine p goes on when its request has been answered.
Resume(p) ==
    \/ p \in Callers /\ (GVT_RefreshFailed(p) \/ GVT_Commit(p))
    \/ p \in Admins /\ (CB_ExchangeFailed(p) \/ CB_Commit(p))

\* One get_valid_token invocation at a time, beside the callback, against
\* an endpoint that may fail in every way, at one instant of the clock: how
\* long a request takes is in TransportError, the timeout of the client.
NextLive == Code({"c1"}) \/ Endpoint \/ Faults

\* Every request is answered or times out (the 30 s timeout of the client)
\* and the event loop resumes a coroutine whose await is over.
SpecLive ==
    /\ Init
    /\ [][NextLive]_vars
    /\ \A p \in Procs : WF_vars(Answer(p))
    /\ \A p \in Procs : WF_vars(Resume(p))

\* The same, with a table whose writes can fail.
NextStore ==
    \/ Code({"c1"})
    \/ \E c \in {"c1"} : GVT_SaveFailed(c)
    \/ \E a \in Admins : CB_SaveFailed(a)
    \/ Endpoint
    \/ \E p \in Procs : TransportError(p)
    \/ Tick
    \/ Elapse

SpecStore == Init /\ [][NextStore]_vars

\* Concurrent get_valid_token invocations, beside the callback, against an
\* endpoint that answers every request, with a clock that can run past a
\* token's expiry.
NextConcurrentExpiry == Code(Callers) \/ Endpoint \/ Tick \/ Elapse

SpecConcurrentExpiry == Init /\ [][NextConcurrentExpiry]_vars

\* One get_valid_token invocation at a time, beside the login page and the
\* callback, whose requests may carry any state value, against an endpoint
\* that answers the callback's requests and may leave a refresh request
\* unanswered, at one instant of the clock.
NextLogin ==
    \/ Code({"c1"})
    \/ Endpoint
    \/ \E c \in {"c1"} : TransportError(c)
    \/ Login
    \/ ForgeState

SpecLogin == Init /\ [][NextLogin]_vars


(* ------------------------------ the claims ----------------------------- *)

\* A step in which get_valid_token or the callback is entered by p.
CallStep(p) ==
    /\ pc[p] \in {"idle", "done"}
    /\ <<pc[p], outcome[p], sent[p], net[p]>>' # <<pc[p], outcome[p], sent[p], net[p]>>

\* The step in which p gets the answer to its request and ends.
FinishStep(p) == pc[p] = "awaiting" /\ pc'[p] = "done"

\* The token-endpoint call of the claims succeeds: a response came, with
\* status 200, no error or error_code in the body, and both tokens.
CallSucceeds(msg) ==
    /\ msg.stage = "response"
    /\ msg.status = HTTP_OK
    /\ ~msg.error
    /\ msg.access_token \notin {None, EmptyStr}
    /\ msg.refresh_token \notin {None, EmptyStr}

\* C1: a get_valid_token call that reads a record with
\* expires_at - now > 600 returns that record's access_token and sends no
\* request to the token endpoint.
C1_FreshTokenServedWithoutRequest ==
    [][\A c \in Callers :
        (CallStep(c) /\ db # {} /\ MaxRow(db).expires_at - now > TOKEN_REFRESH_BUFFER)
        => /\ pc'[c] = "done"
           /\ outcome'[c].kind = "token"
           /\ outcome'[c].token = MaxRow(db).access_token
           /\ sent'[c] = 0
           /\ net'[c].stage = "none"
           /\ UNCHANGED <<issued, validRefresh, usedRefresh>>]_vars

C1_Witness ==
    \E c \in Callers :
        /\ pc[c] = "done"
        /\ time_remaining[c] > TOKEN_REFRESH_BUFFER
        /\ outcome[c].kind = "token"
        /\ outcome[c].token = token_record[c].access_token
        /\ sent[c] = 0

\* C2: a get_valid_token call that reads a record with
\* expires_at - now <= 600 and whose refresh succeeds returns the
\* access_token of the refresh response, and right after it the store holds
\* the response's access_token and refresh_token and no longer the
\* refresh_token it read.
C2_RefreshCommitsAndReturnsNewToken ==
    [][\A c \in Callers :
        (FinishStep(c) /\ time_remaining[c] <= TOKEN_REFRESH_BUFFER /\ CallSucceeds(net[c]))
        => /\ outcome'[c].kind = "token"
           /\ outcome'[c].token = net[c].access_token
           /\ db' # {}
           /\ \A r \in db' :
                /\ r.access_token = net[c].access_token
                /\ r.refresh_token = net[c].refresh_token
                /\ r.refresh_token # token_record[c].refresh_token]_vars

C2_Witness ==
    \E c \in Callers :
        /\ pc[c] = "done"
        /\ time_remaining[c] = TOKEN_REFRESH_BUFFER
        /\ outcome[c].request = "succeeded"
        /\ outcome[c].token # token_record[c].access_token
        /\ \E r \in db : r.access_token = outcome[c].token
                         /\ r.refresh_token # token_record[c].refresh_token

\* C3: a get_valid_token call that reads a record with
\* 0 < expires_at - now <= 600 and whose refresh fails, for whatever reason,
\* does not raise: it returns the access_token it read.
C3_FailedRefreshServesOldToken ==
    [][\A c \in Callers :
        (/\ FinishStep(c)
         /\ time_remaining[c] > 0
         /\ time_remaining[c] <= TOKEN_REFRESH_BUFFER
         /\ ~CallSucceeds(net[c]))
        => /\ outcome'[c].kind = "token"
           /\ outcome'[c].token = token_record[c].access_token
           /\ db' = db]_vars

C3_Witness ==
    \E c \in Callers :
        /\ pc[c] = "done"
        /\ time_remaining[c] > 0
        /\ time_remaining[c] < TOKEN_REFRESH_BUFFER
        /\ outcome[c].request = "failed"
        /\ outcome[c].kind = "token"
        /\ outcome[c].token = token_record[c].access_token

\* C4: a get_valid_token call that reads a record with expires_at - now <= 0
\* and whose refresh fails raises TokenExpiredAndRefreshFailed and returns
\* no token.
C4_ExpiredAndFailedRefreshRaises ==
    [][\A c \in Callers :
        (FinishStep(c) /\ time_remaining[c] <= 0 /\ ~CallSucceeds(net[c]))
        => /\ outcome'[c].kind = "TokenExpiredAndRefreshFailed"
           /\ outcome'[c].token = None]_vars

C4_Witness ==
    \E c \in Callers :
        /\ pc[c] = "done"
        /\ time_remaining[c] = 0
        /\ outcome[c].request = "failed"
        /\ outcome[c].kind = "TokenExpiredAndRefreshFailed"

\* C5: with no record in the store, get_valid_token raises NotAuthorized and
\* sends no request to the token endpoint.
C5_NoRecordRaisesNotAuthorized ==
    [][\A c \in Callers :
        (CallStep(c) /\ db = {})
        => /\ pc'[c] = "done"
           /\ outcome'[c].kind = "NotAuthorized"
           /\ outcome'[c].token = None
           /\ sent'[c] = 0
           /\ net'[c].stage = "none"
           /\ UNCHANGED <<issued, validRefresh, usedRefresh>>]_vars

C5_Witness ==
    \E c \in Callers :
        /\ pc[c] = "done"
        /\ db = {}
        /\ outcome[c].kind = "NotAuthorized"
        /\ sent[c] = 0


\* The expires_in the code hands to save_token_to_db: the response's, or 0
\* when the response has none.
GivenExpiresIn(msg) == IF msg.expires_in = None THEN 0 ELSE msg.expires_in

\* C6, as claimed: the store write keeps an expires_in >= 1,000,000,000 as
\* the expires_at and stores now + expires_in for one < 1,000,000,000.
C6_ThresholdIsATimestamp ==
    [][\A p \in Procs :
        (FinishStep(p) /\ CallSucceeds(net[p]))
        => /\ db' # {}
           /\ \A r \in db' :
                LET e == GivenExpiresIn(net[p])
                IN  /\ e >= TIMESTAMP_THRESHOLD => r.expires_at = e
                    /\ e < TIMESTAMP_THRESHOLD => r.expires_at = now + e]_vars

\* C6, amended: the store write keeps an expires_in > 1,000,000,000 as the
\* expires_at and stores now + expires_in for one <= 1,000,000,000, the
\* value 1,000,000,000 included.
C6_ThresholdIsRelative ==
    [][\A p \in Procs :
        (FinishStep(p) /\ CallSucceeds(net[p]))
        => /\ db' # {}
           /\ \A r \in db' :
                LET e == GivenExpiresIn(net[p])
                IN  /\ e > TIMESTAMP_THRESHOLD => r.expires_at = e
                    /\ e <= TIMESTAMP_THRESHOLD => r.expires_at = now + e]_vars

\* A row written from expires_in = 1,000,000,000, taken as seconds from the
\* time of the write.
C6_Witness ==
    \E r \in db : \E k \in 0..MaxTicks :
        r.expires_at = StartTime + k * TickStep + TIMESTAMP_THRESHOLD

\* C7: the store never holds more than one record, and the record keeps
\* the id it was created with: every later exchange or refresh updates it
\* in place.
C7_AtMostOneRecord ==
    /\ Cardinality(db) <= 1
    /\ \A r \in db : r.id = 1

C7_Witness ==
    \E c \in Callers : \E a \in Admins : \E r \in db :
        /\ outcome[a].request = "succeeded"
        /\ outcome[c].request = "succeeded"
        /\ outcome[c].token # outcome[a].token
        /\ r.access_token \in {outcome[c].token, outcome[a].token}
        /\ Len(issued) = MaxIssued

\* No request is awaiting its answer.
Quiescent == \A p \in Procs : pc[p] # "awaiting"

\* C8, as claimed, and only where nothing is in flight: the stored
\* refresh_token is the one the provider issued last.
C8_StoredRefreshTokenIsLatest ==
    (db # {} /\ Quiescent) => \A r \in db : r.refresh_token = Len(issued)

\* The step in which c sends its refresh request.
SendStep(c) == pc[c] # "awaiting" /\ pc'[c] = "awaiting"

\* C9, as claimed: a refresh request never carries a refresh token the
\* provider has already accepted.
C9_NeverSendsUsedRefreshToken ==
    [][\A c \in Callers : SendStep(c) => net'[c].arg \notin usedRefresh]_vars

\* C9, amended: a refresh request carries the refresh token the store holds
\* when the request is sent, and never one whose replacement (the pair the
\* provider issued for it) has been committed to the store.
C9_SendsTheStoredRefreshToken ==
    [][\A c \in Callers :
        SendStep(c)
        => /\ db # {}
           /\ \A r \in db : net'[c].arg = r.refresh_token
           /\ \A n \in 1..Len(issued) :
                issued[n].from = net'[c].arg => n \notin committed]_vars

C9_Witness ==
    \E c, d \in Callers :
        /\ c # d
        /\ pc[c] = "awaiting" /\ net[c].stage = "request"
        /\ net[c].arg \in usedRefresh
        /\ pc[d] = "awaiting" /\ CallSucceeds(net[d])
        /\ \A r \in db : r.refresh_token = net[c].arg

\* 0 < time_remaining <= 600
NearExpiry(tr) == tr > 0 /\ tr <= TOKEN_REFRESH_BUFFER

\* Two get_valid_token calls have read the same record, near expiry, and
\* both have sent a refresh with its refresh_token; w's has succeeded.
Raced(w, l) ==
    /\ w # l
    /\ pc[w] = "done" /\ pc[l] = "done"
    /\ token_record[w] # NoRow
    /\ token_record[w] = token_record[l]
    /\ NearExpiry(time_remaining[w]) /\ NearExpiry(time_remaining[l])
    /\ sent[w] = 1 /\ sent[l] = 1
    /\ outcome[w].request = "succeeded"

\* C10: of two concurrent get_valid_token calls that read the same record
\* near expiry and refresh with the same refresh token, the provider
\* accepts one; the other does not raise and returns the access_token it
\* read, and the store holds the winner's new pair (pair n is access_token
\* n with refresh_token n) unless an authorization callback has replaced it
\* since.
C10_RaceLoserServesOldToken ==
    \A w, l \in Callers :
        Raced(w, l)
        => /\ outcome[l].request = "failed"
           /\ outcome[l].kind = "token"
           /\ outcome[l].token = token_record[l].access_token
           /\ db # {}
           /\ \A r \in db :
                \/ /\ r.access_token = outcome[w].token
                   /\ r.refresh_token = outcome[w].token
                   /\ r.refresh_token # token_record[w].refresh_token
                \/ /\ issued[r.access_token].grant = "authorization_code"
                   /\ r.access_token # token_record[w].access_token

C10_Witness ==
    \E w, l \in Callers :
        /\ Raced(w, l)
        /\ outcome[l].kind = "token"
        /\ outcome[l].token = token_record[l].access_token
        /\ \E r \in db : r.access_token = outcome[w].token

\* A step in which get_valid_token returns a token to c.
ReturnStep(c) == pc[c] # "done" /\ pc'[c] = "done" /\ outcome'[c].kind = "token"

\* The expires_at of the record whose access_token c's last invocation
\* returned: the record it saved, or the record it read.
ReturnedExpiry(c) ==
    IF outcome[c].request = "succeeded" THEN latest_record(db).expires_at
    ELSE token_record[c].expires_at

\* C11, as claimed: when get_valid_token returns a token, the token's
\* expires_at is strictly later than the time of the return.
C11_ReturnedTokenUnexpired ==
    [][\A c \in Callers : ReturnStep(c) => ReturnedExpiry(c)' > now']_vars

\* The step in which the provider answers p's request.
AnswerStep(p) == net[p].stage = "request" /\ net'[p].stage = "response"

C13_FailedExchangeLeavesStore ==
    [][\A a \in Admins :
        (CallStep(a) \/ (FinishStep(a) /\ ~CallSucceeds(net[a])))
        => /\ db' = db
           /\ next_id' = next_id]_vars

\* A callback has failed at the exchange and the record of an earlier
\* authorization is still there.
C13_Witness ==
    \E a \in Admins :
        /\ pc[a] = "done"
        /\ outcome[a] = RaisedError("500", "failed")
        /\ callback_args[a].code = GoodCode
        /\ db # {}
        /\ committed = {r.refresh_token : r \in db}

\* A token field of the response is absent or empty.
LacksField(msg) ==
    \/ Falsy(msg.access_token)
    \/ Falsy(msg.refresh_token)
    \/ msg.expires_in = None

\* C14, as claimed: the exchange succeeds only on a response with
\* access_token, refresh_token and expires_in; a response that lacks one of
\* the three fails and nothing is written.
C14_ExchangeNeedsAllThreeFields ==
    [][\A a \in Admins :
        (FinishStep(a) /\ net[a].stage = "response" /\ LacksField(net[a]))
        => /\ outcome'[a] = RaisedError("500", "failed")
           /\ db' = db]_vars

\* C14, amended: the exchange succeeds exactly when the response has status
\* 200, no error in the body, and a non-empty access_token and
\* refresh_token; one that lacks either token fails and nothing is written;
\* one that lacks only expires_in succeeds, and its pair is written with
\* expires_at = now.
C14_ExchangeNeedsBothTokens ==
    [][\A a \in Admins :
        FinishStep(a)
        => /\ (outcome'[a].request = "succeeded") <=> CallSucceeds(net[a])
           /\ (Falsy(net[a].access_token) \/ Falsy(net[a].refresh_token))
              => /\ outcome'[a] = RaisedError("500", "failed")
                 /\ db' = db
           /\ (CallSucceeds(net[a]) /\ net[a].expires_in = None)
              => /\ db' # {}
                 /\ \A r \in db' : /\ r.access_token = net[a].access_token
                                   /\ r.refresh_token = net[a].refresh_token
                                   /\ r.expires_at = now]_vars

\* A callback has succeeded on a response without expires_in: the record it
\* wrote expires at the time of the write.
C14_Witness ==
    \E a \in Admins : \E r \in db :
        /\ pc[a] = "done"
        /\ outcome[a].request = "succeeded"
        /\ r.access_token = outcome[a].token
        /\ r.expires_at = now
        /\ now = StartTime

\* The response reports a failure: a status other than 200, or status 200
\* with a non-empty error or error_code in the body.
ReportsFailure(msg) ==
    /\ msg.stage = "response"
    /\ (msg.status # HTTP_OK \/ msg.error)

\* C15: an exchange and a refresh fail on a response with a status other
\* than 200 and on one with status 200 whose body carries an error or
\* error_code, whether or not the body also has access_token and
\* refresh_token; nothing is written.
C15_StatusAndBodyErrorsFail ==
    [][\A p \in Procs :
        (FinishStep(p) /\ ReportsFailure(net[p]))
        => /\ outcome'[p].request = "failed"
           /\ db' = db]_vars

\* An exchange and a refresh each hold a 200 response with an error beside
\* a full token pair, and each operation raises on it.
C15_Witness ==
    \E a \in Admins : \E c \in Callers :
        /\ pc[a] = "awaiting" /\ pc[c] = "awaiting"
        /\ \A p \in {a, c} :
            /\ net[p].stage = "response"
            /\ net[p].status = HTTP_OK
            /\ net[p].error
            /\ ~Falsy(net[p].access_token)
            /\ ~Falsy(net[p].refresh_token)
        /\ ~exchange_code_for_token(net[a]).ok
        /\ ~refresh_access_token(net[c]).ok

\* C16: the table changes only in the step in which a coroutine that holds
\* a complete, successful response saves it, and the table then holds the
\* pair of that response: sending a refresh, the provider's answer, and the
\* handling of a failed refresh write nothing, so the table never holds a
\* value of a refresh that failed or is still in flight.
C16_StoreWrittenOnlyAfterSuccess ==
    [][(db' # db)
       => \E p \in Procs :
            /\ FinishStep(p)
            /\ CallSucceeds(net[p])
            /\ \A r \in db' : /\ r.access_token = net[p].access_token
                              /\ r.refresh_token = net[p].refresh_token]_vars

\* A refresh has failed although the provider had issued a new pair for it:
\* the table still holds the record the call read, and never held the new
\* pair.
C16_Witness ==
    \E c \in Callers : \E r \in db :
        /\ pc[c] = "done"
        /\ outcome[c].request = "failed"
        /\ r = token_record[c]
        /\ issued # <<>>
        /\ issued[Len(issued)].grant = "refresh_token"
        /\ issued[Len(issued)].from = r.refresh_token
        /\ Len(issued) \notin committed

\* The expires_in the code takes from a response: 0 where it has none.
ExpiresInOf(msg) == IF msg.expires_in = None THEN 0 ELSE msg.expires_in

\* C17: every row has the access_token and the refresh_token of one pair
\* (pair n is access_token n with refresh_token n), and every write puts
\* into the row the access_token, the refresh_token and the expires_at of
\* the one response the writer holds, whatever the other writers do.
C17_RecordFromOneResponse ==
    /\ [](\A r \in db : r.access_token = r.refresh_token)
    /\ [][(db' # db)
          => \E p \in Procs :
               /\ FinishStep(p)
               /\ CallSucceeds(net[p])
               /\ \A r \in db' :
                    /\ r.access_token = net[p].access_token
                    /\ r.refresh_token = net[p].refresh_token
                    /\ r.expires_at = expires_at_of(ExpiresInOf(net[p]), now)]_vars

\* A get_valid_token call and the callback were suspended together, each
\* with a response of its own, and both have written.
C17_Witness ==
    \E c \in Callers : \E a \in Admins : \E r \in db :
        /\ pc[c] = "done" /\ pc[a] = "done"
        /\ outcome[c].request = "succeeded"
        /\ outcome[a].request = "succeeded"
        /\ outcome[a].token = outcome[c].token + 1
        /\ r.access_token = outcome[c].token
        /\ r.refresh_token = outcome[c].token
        /\ issued[outcome[c].token].from = token_record[c].refresh_token

\* The step in which c, having read a record near expiry, saves a
\* successful refresh.
NearExpiryCommit(c) ==
    /\ FinishStep(c)
    /\ NearExpiry(time_remaining[c])
    /\ CallSucceeds(net[c])

\* The lifetime a response states is a full window, more than 600 seconds
\* from now, if it states one.
StatesNoShortLifetime(msg) ==
    \/ msg.expires_in = None
    \/ msg.expires_in > TIMESTAMP_THRESHOLD /\ msg.expires_in - now > TOKEN_REFRESH_BUFFER
    \/ msg.expires_in <= TIMESTAMP_THRESHOLD /\ msg.expires_in > TOKEN_REFRESH_BUFFER

\* C18, as claimed, for a provider whose lifetimes are full windows: a
\* get_valid_token call in NearExpiry whose refresh succeeds leaves a
\* record in Valid: expires_at - now > 600.
C18_RefreshResetsToValid ==
    [][\A c \in Callers :
        (NearExpiryCommit(c) /\ StatesNoShortLifetime(net[c]))
        => \A r \in db' : r.expires_at - now > TOKEN_REFRESH_BUFFER]_vars

\* C18, amended: such a call leaves a record whose expires_at is the
\* response's expires_in where that is above 1,000,000,000 and now plus
\* expires_in otherwise (0 where the response has none); the record is in
\* Valid exactly when that leaves more than 600 seconds.
C18_RefreshResetsToResponseLifetime ==
    [][\A c \in Callers :
        NearExpiryCommit(c)
        => LET e == ExpiresInOf(net[c])
           IN  /\ db' # {}
               /\ \A r \in db' :
                    /\ r.expires_at = IF e > TIMESTAMP_THRESHOLD THEN e ELSE now + e
                    /\ (r.expires_at - now > TOKEN_REFRESH_BUFFER)
                       <=> \/ e > TIMESTAMP_THRESHOLD /\ e - now > TOKEN_REFRESH_BUFFER
                           \/ e <= TIMESTAMP_THRESHOLD /\ e > TOKEN_REFRESH_BUFFER]_vars

\* A refresh from NearExpiry has been saved and the record is in Valid.
C18_Witness ==
    \E c \in Callers : \E r \in db :
        /\ pc[c] = "done"
        /\ NearExpiry(time_remaining[c])
        /\ outcome[c].request = "succeeded"
        /\ r.access_token = outcome[c].token
        /\ r.refresh_token # token_record[c].refresh_token
        /\ r.expires_at - now > TOKEN_REFRESH_BUFFER

\* A get_valid_token call has raised "expired and refresh failed", no
\* exchange has been saved since, and the record it found expired is still
\* the stored one.
AfterExpiredAndRefreshFailed ==
    /\ expired_token # None
    /\ \E r \in db : r.access_token = expired_token

\* C19, as claimed: after a call has failed with
\* TokenExpiredAndRefreshFailed, no get_valid_token call returns a token
\* until an exchange has succeeded.
C19_ExpiredIsTerminal ==
    [][\A c \in Callers : AfterExpiredAndRefreshFailed => ~ReturnStep(c)]_vars

\* C19, amended: the failure is not latched.  After it, and until an
\* exchange or a refresh is saved, every call sends a refresh with the
\* stored refresh_token; a call whose refresh fails raises the same error
\* and leaves the table as it is; a call whose refresh succeeds returns the
\* new access_token, and in no other way does a call return a token.
C19_ExpiredRetriesRefresh ==
    [][\A c \in Callers :
        AfterExpiredAndRefreshFailed
        => /\ CallStep(c)
              => /\ pc'[c] = "awaiting"
                 /\ net'[c] = Request("refresh_token", latest_record(db).refresh_token)
           /\ (FinishStep(c) /\ ~CallSucceeds(net[c]))
              => /\ outcome'[c] = RaisedError("TokenExpiredAndRefreshFailed", "failed")
                 /\ db' = db
           /\ ReturnStep(c)
              => /\ FinishStep(c)
                 /\ CallSucceeds(net[c])
                 /\ outcome'[c].token = net[c].access_token
                 /\ outcome'[c].token # expired_token]_vars

\* After a call raised on the expired record, with no exchange since, a
\* later call has refreshed and returned a new token.
C19_Witness ==
    \E c \in Callers : \E r \in db :
        /\ expired_token # None
        /\ pc[c] = "done"
        /\ outcome[c] = Returned(r.access_token, "succeeded")
        /\ token_record[c].access_token = expired_token
        /\ time_remaining[c] <= 0
        /\ issued[r.refresh_token].from = token_record[c].refresh_token

\* A step of a get_valid_token invocation, and one of a callback.
GetValidTokenStep == \E c \in Callers : CallStep(c) \/ FinishStep(c)
CallbackStep == \E a \in Admins : CallStep(a) \/ FinishStep(a)

\* A refresh request goes out for p in this step.
RefreshSent(p) ==
    /\ net'[p].stage = "request"
    /\ net'[p].grant = "refresh_token"
    /\ net'[p] # net[p]

\* C20: a refresh request goes out only in the step in which a
\* get_valid_token invocation starts waiting for its answer; in a step in
\* which time passes, and in every step that is no step of get_valid_token
\* (the provider answering, the callback), none is sent, and the table
\* changes in none of them but the callback saving an exchange.
C20_RefreshIsPullDriven ==
    [][/\ \A p \in Procs :
            RefreshSent(p)
            => /\ p \in Callers
               /\ CallStep(p)
               /\ pc'[p] = "awaiting"
       /\ (now' # now \/ ~GetValidTokenStep)
          => /\ \A p \in Procs : ~RefreshSent(p)
             /\ (now' # now \/ ~CallbackStep) => db' = db]_vars

\* Time has passed the expiry of the stored record while get_valid_token
\* was never called: no refresh was sent and the record is as the exchange
\* wrote it.
C20_Witness ==
    \E r \in db :
        /\ now > StartTime
        /\ r.expires_at <= now
        /\ r.expires_at > StartTime
        /\ \A c \in Callers : pc[c] = "idle" /\ net[c] = NoMsg
        /\ \A n \in 1..Len(issued) : issued[n].grant = "authorization_code"
        /\ committed = {r.refresh_token}

\* The step in which an invocation of c ends: at once, or with the answer to
\* its request.
EndStep(c) == (CallStep(c) \/ FinishStep(c)) /\ pc'[c] = "done"

RequestSent(p) == net'[p].stage = "request" /\ net'[p] # net[p]

\* The step in which p, suspended at its request, takes the answer up.
HandlesAnswer(p) ==
    /\ pc[p] = "awaiting"
    /\ net[p].stage \in {"response", "error"}
    /\ <<pc[p], outcome[p], sent[p]>>' # <<pc[p], outcome[p], sent[p]>>

\* C22: a callback invocation sends at most one request to the token
\* endpoint, in the step in which it is entered and never after; when the
\* answer is a failure, the invocation ends there with the 500 page and
\* sends nothing more.
C22_ExchangeNeverRetries ==
    [][\A a \in Admins :
        /\ RequestSent(a) => (CallStep(a) /\ sent'[a] = 1)
        /\ sent'[a] <= 1
        /\ (HandlesAnswer(a) /\ ~CallSucceeds(net[a]))
           => /\ pc'[a] = "done"
              /\ outcome'[a] = RaisedError("500", "failed")
              /\ net'[a] = NoMsg
              /\ sent'[a] = sent[a]]_vars

\* A callback whose one request the provider refused has ended with the 500
\* page.
C22_Witness ==
    \E a \in Admins :
        /\ pc[a] = "done"
        /\ outcome[a] = RaisedError("500", "failed")
        /\ sent[a] = 1
        /\ callback_args[a].code = BadCode
        /\ net[a] = NoMsg

\* The step in which c, having read a record that had expired, saves a
\* successful refresh.
ExpiredCommit(c) ==
    /\ FinishStep(c)
    /\ time_remaining[c] <= 0
    /\ CallSucceeds(net[c])

\* What C23 says of the request and of the commit: a call that reads an
\* expired record sends a refresh with the stored refresh_token; if the
\* refresh succeeds, the call returns the new access_token and the table
\* holds the new pair, which the provider issued for that refresh token and
\* for no authorization code.
ExpiredRecordIsRefreshed(c) ==
    /\ (CallStep(c) /\ db # {} /\ MaxRow(db).expires_at - now <= 0)
       => /\ pc'[c] = "awaiting"
          /\ sent'[c] = 1
          /\ net'[c] = Request("refresh_token", MaxRow(db).refresh_token)
    /\ ExpiredCommit(c)
       => /\ outcome'[c] = Returned(net[c].access_token, "succeeded")
          /\ db' # {}
          /\ \A r \in db' : /\ r.access_token = net[c].access_token
                            /\ r.refresh_token = net[c].refresh_token
          /\ issued[net[c].access_token].grant = "refresh_token"
          /\ issued[net[c].access_token].from = token_record[c].refresh_token
          /\ \A a \in Admins : pc'[a] = pc[a] /\ outcome'[a] = outcome[a]

\* C23, as claimed, for a provider whose lifetimes are full windows: an
\* expired record is refreshed, and after a successful refresh the record
\* is in Valid: expires_at - now > 600.
C23_ExpiredBackToValid ==
    [][\A c \in Callers :
        /\ ExpiredRecordIsRefreshed(c)
        /\ (ExpiredCommit(c) /\ StatesNoShortLifetime(net[c]))
           => \A r \in db' : r.expires_at - now > TOKEN_REFRESH_BUFFER]_vars

\* C23, amended: an expired record is refreshed, and after a successful
\* refresh the record's expires_at is the one save_token_to_db makes of the
\* response's expires_in (0 where it has none): the record is in Valid
\* where that leaves more than 600 seconds, and has expired again at once
\* where the response has no expires_in.
C23_ExpiredRecordRefreshed ==
    [][\A c \in Callers :
        /\ ExpiredRecordIsRefreshed(c)
        /\ ExpiredCommit(c)
           => \A r \in db' :
                /\ r.expires_at = expires_at_of(ExpiresInOf(net[c]), now)
                /\ net[c].expires_in = None => r.expires_at = now]_vars

\* A call has read an expired record, refreshed it with no exchange in
\* between, and left a record in Valid.
C23_Witness ==
    \E c \in Callers : \E r \in db :
        /\ pc[c] = "done"
        /\ time_remaining[c] <= 0
        /\ outcome[c] = Returned(r.access_token, "succeeded")
        /\ issued[r.refresh_token].from = token_record[c].refresh_token
        /\ r.expires_at - now > TOKEN_REFRESH_BUFFER
        /\ expired_token = None

\* The callback request that a enters with in this step carries an error,
\* or carries no code.
EntersRefusable(a) ==
    /\ CallStep(a)
    /\ callback_args'[a].error \/ Falsy(callback_args'[a].code)

\* C24: a callback request that carries an error, or no code, is answered
\* with the 400 page: no exchange request is sent, the provider is not
\* touched, and the table stays as it is; this is so also when the request
\* carries a code beside the error.
C24_ErrorOrNoCodeRefused ==
    [][\A a \in Admins :
        EntersRefusable(a)
        => /\ pc'[a] = "done"
           /\ outcome'[a] = RaisedError("400", "not_tried")
           /\ sent'[a] = 0
           /\ net'[a] = NoMsg
           /\ db' = db
           /\ next_id' = next_id
           /\ UNCHANGED <<issued, validRefresh, usedRefresh>>]_vars

\* A callback request with an error and a code the provider would have
\* accepted has been refused, and the record of the earlier authorization
\* is as it was.
C24_Witness ==
    \E a \in Admins : \E r \in db :
        /\ pc[a] = "done"
        /\ callback_args[a].error
        /\ callback_args[a].code = GoodCode
        /\ outcome[a] = RaisedError("400", "not_tried")
        /\ sent[a] = 0
        /\ committed = {r.refresh_token}
        /\ Len(issued) = 1

\* The callback request that a enters with in this step carries a code and
\* no error.
EntersWithCode(a) ==
    /\ CallStep(a)
    /\ ~callback_args'[a].error
    /\ ~Falsy(callback_args'[a].code)

\* C25: a callback request with a code and no error is exchanged whatever
\* state it carries (none, one of an authorize URL, one that was never
\* generated) and whether or not an authorize URL was ever built; when the
\* exchange succeeds its pair replaces the stored record.
C25_CallbackNeedsNoLogin ==
    [][\A a \in Admins :
        /\ EntersWithCode(a)
           => /\ pc'[a] = "awaiting"
              /\ sent'[a] = 1
              /\ net'[a] = Request("authorization_code", callback_args'[a].code)
        /\ (FinishStep(a) /\ CallSucceeds(net[a]))
           => /\ outcome'[a] = Returned(net[a].access_token, "succeeded")
              /\ db' # {}
              /\ \A r \in db' : /\ r.access_token = net[a].access_token
                                /\ r.refresh_token = net[a].refresh_token]_vars

\* No authorize URL was ever built; a callback request with a made-up state
\* has been exchanged and its pair has replaced the record of an earlier
\* authorization.
C25_Witness ==
    \E a \in Admins : \E r \in db :
        /\ authorize_states = {}
        /\ pc[a] = "done"
        /\ callback_args[a].state = ForgedState
        /\ outcome[a] = Returned(r.access_token, "succeeded")
        /\ Cardinality(committed) = 2
        /\ r.id = 1

\* C26: where every request is answered or times out, a get_valid_token
\* invocation that is waiting for its answer ends (the others end in the
\* step in which they are entered); an invocation sends at most one refresh
\* request, in the step in which it is entered, and the step that takes the
\* answer up ends the invocation and sends nothing.
C26_GetValidTokenTerminates ==
    /\ \A c \in Callers : (pc[c] = "awaiting") ~> (pc[c] = "done")
    /\ [][\A c \in Callers :
            /\ sent'[c] <= 1
            /\ RequestSent(c) => (CallStep(c) /\ sent'[c] = 1)
            /\ CallStep(c) => pc'[c] \in {"awaiting", "done"}
            /\ HandlesAnswer(c) => (pc'[c] = "done" /\ net'[c] = NoMsg)]_vars

\* An invocation that sent its one refresh request, for a record that had
\* expired, and got no new pair has ended.
C26_Witness ==
    \E c \in Callers :
        /\ pc[c] = "done"
        /\ sent[c] = 1
        /\ outcome[c].request = "failed"
        /\ time_remaining[c] <= 0
        /\ usedRefresh = {}
        /\ Len(issued) = 1
        /\ net[c] = NoMsg

\* C27, as claimed: when get_valid_token raises
\* TokenExpiredAndRefreshFailed, the table holds no access token that has
\* not expired; so of two concurrent calls that read the same expired
\* record, the one whose refresh is refused after the other's has been
\* saved does not raise.
C27_RaisesOnlyWithoutUsableToken ==
    [][\A c \in Callers :
        (FinishStep(c) /\ outcome'[c].kind = "TokenExpiredAndRefreshFailed")
        => \A r \in db : r.expires_at - now <= 0]_vars

\* The step in which c's write of a successful refresh fails.
SaveFailedStep(c) == FinishStep(c) /\ outcome'[c].kind = "StoreError"

\* C28: a get_valid_token call whose refresh succeeded either saves the
\* pair and returns its access_token, or, the write failing, leaves the
\* table exactly as it was and raises the error of the write; it never
\* returns the token it read, expired or not.  Where no one else has
\* written since the call read its record, the record left in the table
\* holds the refresh token that the provider has just consumed.
C28_FailedWriteRollsBackAndRaises ==
    [][\A c \in Callers :
        /\ (FinishStep(c) /\ CallSucceeds(net[c]))
           => \/ /\ outcome'[c] = Returned(net[c].access_token, "succeeded")
                 /\ \A r \in db' : r.refresh_token = net[c].refresh_token
              \/ /\ outcome'[c] = RaisedError("StoreError", "succeeded")
                 /\ db' = db
                 /\ next_id' = next_id
        /\ SaveFailedStep(c)
           => /\ CallSucceeds(net[c])
              /\ db' = db
              /\ outcome'[c].token = None
              /\ net[c].arg \in usedRefresh
              /\ db = {token_record[c]}
                 => \A r \in db' : /\ r.refresh_token = net[c].arg
                                   /\ r.refresh_token \notin validRefresh]_vars

\* The write of a successful refresh has failed while the token the call
\* read had not expired: the call has raised, and the table holds the
\* record it read, whose refresh token the provider has consumed.
C28_Witness ==
    \E c \in Callers :
        /\ pc[c] = "done"
        /\ outcome[c] = RaisedError("StoreError", "succeeded")
        /\ time_remaining[c] > 0
        /\ db = {token_record[c]}
        /\ token_record[c].refresh_token \in usedRefresh
        /\ token_record[c].expires_at > now

\* C29: in every state the record with the highest id, which
\* get_valid_token reads, is the first record, which save_token_to_db
\* updates; so a get_valid_token call reads the record that the next write
\* will update, and after every write the record a call would read holds
\* the pair that was written.
C29_ReadsTheRecordWritten ==
    /\ [](latest_record(db) = first_record(db))
    /\ [][/\ \A c \in Callers :
                (CallStep(c) /\ db # {}) => token_record'[c] = first_record(db)
          /\ \A p \in Procs :
                (FinishStep(p) /\ db' # db)
                => /\ latest_record(db').access_token = net[p].access_token
                   /\ latest_record(db').refresh_token = net[p].refresh_token]_vars

\* A call has saved a refresh into the record the exchange created, and
\* the next call of another caller has read that record and served its new
\* access_token.
C29_Witness ==
    \E c, d \in Callers :
        /\ c # d
        /\ pc[c] = "done" /\ pc[d] = "done"
        /\ outcome[d].request = "succeeded"
        /\ outcome[c] = Returned(outcome[d].token, "not_tried")
        /\ db = {token_record[c]}
        /\ token_record[c].id = 1
        /\ issued[token_record[c].refresh_token].grant = "refresh_token"

\* A step of get_valid_token for c other than the saving of a successful
\* refresh.
NonCommittingStep(c) ==
    /\ CallStep(c) \/ FinishStep(c)
    /\ ~(FinishStep(c) /\ CallSucceeds(net[c]))

\* C30: a get_valid_token step that is not the saving of a successful
\* refresh leaves the table and its id counter as they are: the fast path,
\* the NotAuthorized path, the sending of the refresh, and both ends of a
\* failed refresh, the old token served or the error raised.
C30_NonCommittingCallLeavesStore ==
    [][\A c \in Callers :
        /\ NonCommittingStep(c) => (db' = db /\ next_id' = next_id)
        /\ (CallStep(c) /\ db # {} /\ IsFresh(MaxRow(db).expires_at - now))
           => (db' = db /\ token_record'[c] \in db')
        /\ (CallStep(c) /\ db = {}) => db' = {}
        /\ (FinishStep(c) /\ ~CallSucceeds(net[c]))
           => (db' = db /\ outcome'[c].request = "failed")]_vars

\* A call has read an expired record, its refresh has failed and it has
\* raised: the table holds the record exactly as the call read it.
C30_Witness ==
    \E c \in Callers :
        /\ pc[c] = "done"
        /\ outcome[c] = RaisedError("TokenExpiredAndRefreshFailed", "failed")
        /\ time_remaining[c] <= 0
        /\ db = {token_record[c]}
        /\ committed = {token_record[c].refresh_token}
        /\ token_record[c].expires_at = now

====
